---- MODULE Spec2Model ----
(***************************************************************************)
(* Token-level diff engine (src/src/lib/diffUtils.ts) and the content      *)
(* editor state machine (src/src/components/PageContent.tsx and its later  *)
(* revision src/unnamed/part_005) of GSC-Analyzer.                         *)
(*                                                                         *)
(* A string is a sequence of one-character strings; offsets are 0-based    *)
(* as in the source, sequence indices are 1-based.                         *)
(***************************************************************************)
EXTENDS Integers, Sequences, FiniteSets, TLC

VARIABLES
    \* ---- findTextDifferences(originalText, editedText), step by step ----
    originalText,   \* first argument
    editedText,     \* second argument
    a,              \* tokenize(originalText), once computed
    b,              \* tokenize(editedText), once computed
    changes,        \* the raw change list built by the walk (line 75)
    processed,      \* the list the function returns (line 124 / line 58)
    tokenized,      \* TRUE once tokenize has been called
    pc,             \* position inside findTextDifferences
    \* ---- the PageContent component ----
    revision,       \* which revision of the component is running
    initialContent,
    comparisonBase, \* part_005 only
    originalContent,
    editedContent,
    debouncedEditedContent,  \* useDebounce(editedContent, 100)
    debouncePending,         \* the useDebounce timer is armed
    textChanges,
    allChanges,     \* part_005 only
    showHighlights,
    editMode,
    history,
    historyIndex,   \* 0-based, as in the source
    saves,          \* saves since the last load or discard
    contentSaved,   \* last text passed to onSave
    contentChanged, \* last text passed to onContentChanged
    lastOp,         \* the handler that ran last
    \* ---- the renderers, called on a text and its change list ----
    renderBase,     \* the text the rendered text is compared with
    renderText,     \* first argument of the renderer
    renderChanges,  \* second argument: findTextDifferences(renderBase, renderText)
    rendered,       \* the call that was made and what it returned
    \* ---- the Analyze page: the occurrence count of a query ----
    query,          \* query.query of a row of the table
    pageText,       \* pageContent.content
    parentEdited,   \* editedContent of Analyze (null until a callback sets it)
    occurrences,    \* occurrences of the row, once queryFn has run
    countOp,        \* what ran last on the page
    \* ---- useThrottleCallback(callback, limit) ----
    now,            \* Date.now(), in milliseconds
    lastRun,        \* lastRunRef.current
    timeout,        \* when the timer of timeoutRef is due, if one is armed
    pendingArgs,    \* pendingArgsRef.current
    calls,          \* calls of the throttled function so far; the k-th passes k
    passed          \* the arguments the wrapped callback has received, in order

diffVars == <<originalText, editedText, a, b, changes, processed, tokenized, pc>>

editorVars ==
    <<revision, initialContent, comparisonBase, originalContent, editedContent,
      debouncedEditedContent, debouncePending, textChanges, allChanges,
      showHighlights, editMode, history, historyIndex, saves, contentSaved,
      contentChanged, lastOp>>

renderVars == <<renderBase, renderText, renderChanges, rendered>>

countVars == <<query, pageText, parentEdited, occurrences, countOp>>

throttleVars == <<now, lastRun, timeout, pendingArgs, calls, passed>>

nonDiffVars == <<editorVars, renderVars, countVars, throttleVars>>
nonEditorVars == <<diffVars, renderVars, countVars, throttleVars>>
nonRenderVars == <<diffVars, editorVars, countVars, throttleVars>>
nonCountVars == <<diffVars, editorVars, renderVars, throttleVars>>
nonThrottleVars == <<diffVars, editorVars, renderVars, countVars>>

vars == <<diffVars, editorVars, renderVars, countVars, throttleVars>>

----------------------------------------------------------------------------
(* Bounds of the model *)

\* longest enumerated input string, in characters
MaxLen == 4

\* longest undo history the editor is driven to
MaxHistory == 4

\* most saves between two loads or discards (allChanges grows with each)
MaxSaves == 2

\* characters the enumerated strings are made of
Alphabet == {"x", "y", " "}

\* characters matched by \s
Whitespace == {" ", "\n", "\t"}

\* value of an optional field that is absent (originalPosition?, replacementGroup?)
Undefined == -1

----------------------------------------------------------------------------
(* Strings *)

RECURSIVE StringsOfLen(_)
StringsOfLen(n) ==
    IF n = 0 THEN {<<>>}
    ELSE {Append(s, c) : s \in StringsOfLen(n - 1), c \in Alphabet}

BoundedStrings == UNION {StringsOfLen(n) : n \in 0..MaxLen}

TheCatSat == <<"t","h","e"," ","c","a","t"," ","s","a","t">>
TheDogSat == <<"t","h","e"," ","d","o","g"," ","s","a","t">>
HelloWorld == <<"h","e","l","l","o"," ","w","o","r","l","d">>
HelloBraveWorld ==
    <<"h","e","l","l","o"," ","b","r","a","v","e"," ","w","o","r","l","d">>

\* the worked examples of the specification, as (old, new) pairs
ExamplePairs ==
    {<<TheCatSat, TheDogSat>>, <<HelloWorld, HelloBraveWorld>>,
     <<TheCatSat, TheCatSat>>}

InputPairs == (BoundedStrings \X BoundedStrings) \cup ExamplePairs

\* String.prototype.substring(from, to) for 0 <= from, 0-based, end exclusive
Substring(s, from, to) ==
    LET t == IF to > Len(s) THEN Len(s) ELSE to
    IN  IF from >= t THEN <<>> ELSE SubSeq(s, from + 1, t)

RECURSIVE Concat(_)
Concat(seqs) ==
    IF seqs = <<>> THEN <<>> ELSE Head(seqs) \o Concat(Tail(seqs))

----------------------------------------------------------------------------
(* tokenize: /(\s+|[^\s]+)/g, each match with its start offset *)

IsSpace(c) == c \in Whitespace

\* the run cut after its first character
RunOfOne(text, i, ws) == i

\* last 1-based index of the maximal run of one kind that starts at i
RECURSIVE RunEnd(_, _, _)
RunEnd(text, i, ws) ==
    IF i + 1 <= Len(text) /\ IsSpace(text[i + 1]) = ws
    THEN RunEnd(text, i + 1, ws)
    ELSE i

\* the offset recorded one too far (a 1-based index)
TokenOneBased(text, from, to) == [text |-> SubSeq(text, from, to), index |-> from]

Token(text, from, to) == [text |-> SubSeq(text, from, to), index |-> from - 1]

RECURSIVE TokenizeFrom(_, _)
TokenizeFrom(text, i) ==
    IF i > Len(text) THEN <<>>
    ELSE LET e == RunEnd(text, i, IsSpace(text[i]))
         IN  <<Token(text, i, e)>> \o TokenizeFrom(text, e + 1)

tokenize(text) == TokenizeFrom(text, 1)

----------------------------------------------------------------------------
(* findTextDifferences *)

\* the early return left out
NeverShortCircuit(o, e) == FALSE

\* line 58: identical texts return [] before anything else is done
ShortCircuit(o, e) == o = e

\* the table filled without the equal-token case
RECURSIVE dpWithoutMatch(_, _, _, _)
dpWithoutMatch(ta, tb, i, j) ==
    IF i >= Len(ta) \/ j >= Len(tb) THEN 0
    ELSE LET d == dpWithoutMatch(ta, tb, i + 1, j)
             r == dpWithoutMatch(ta, tb, i, j + 1)
         IN  IF d >= r THEN d ELSE r

\* dp[i][j] of lines 67-73, i in 0..n, j in 0..m (0-based token indices)
RECURSIVE dp(_, _, _, _)
dp(ta, tb, i, j) ==
    IF i >= Len(ta) \/ j >= Len(tb) THEN 0
    ELSE IF ta[i + 1].text = tb[j + 1].text THEN dp(ta, tb, i + 1, j + 1) + 1
    ELSE LET d == dp(ta, tb, i + 1, j)
             r == dp(ta, tb, i, j + 1)
         IN  IF d >= r THEN d ELSE r

\* the deletion that records no originalPosition
DeletionWithoutOriginalPosition(tok) ==
    [type |-> "deletion", text |-> tok.text, position |-> tok.index,
     originalPosition |-> Undefined,
     isGrouped |-> FALSE, isReplacement |-> FALSE, replacementGroup |-> Undefined]

\* the deletion recorded at the end of its token
DeletionAtTokenEnd(tok) ==
    [type |-> "deletion", text |-> tok.text,
     position |-> tok.index + Len(tok.text),
     originalPosition |-> tok.index + Len(tok.text),
     isGrouped |-> FALSE, isReplacement |-> FALSE, replacementGroup |-> Undefined]

Deletion(tok) ==
    [type |-> "deletion", text |-> tok.text, position |-> tok.index,
     originalPosition |-> tok.index,
     isGrouped |-> FALSE, isReplacement |-> FALSE, replacementGroup |-> Undefined]

\* the insertion recorded at the end of its token
InsertionAtTokenEnd(tok) ==
    [type |-> "insertion", text |-> tok.text,
     position |-> tok.index + Len(tok.text),
     originalPosition |-> Undefined,
     isGrouped |-> FALSE, isReplacement |-> FALSE, replacementGroup |-> Undefined]

Insertion(tok) ==
    [type |-> "insertion", text |-> tok.text, position |-> tok.index,
     originalPosition |-> Undefined,
     isGrouped |-> FALSE, isReplacement |-> FALSE, replacementGroup |-> Undefined]

\* the walk deleting on every mismatch, whatever the table says
AlwaysDelete(ta, tb, i, j) == TRUE

\* the walk that takes the insertion when both moves are worth the same
PreferDeleteIfLonger(ta, tb, i, j) == dp(ta, tb, i + 1, j) > dp(ta, tb, i, j + 1)

\* line 82: which way the walk goes when the two tokens differ
PreferDelete(ta, tb, i, j) == dp(ta, tb, i + 1, j) >= dp(ta, tb, i, j + 1)

\* lines 76-121: the walk from (i, j), with both tail loops
RECURSIVE Walk(_, _, _, _)
Walk(ta, tb, i, j) ==
    IF i < Len(ta) /\ j < Len(tb) THEN
        IF ta[i + 1].text = tb[j + 1].text THEN Walk(ta, tb, i + 1, j + 1)
        ELSE IF PreferDelete(ta, tb, i, j)
             THEN <<Deletion(ta[i + 1])>> \o Walk(ta, tb, i + 1, j)
             ELSE <<Insertion(tb[j + 1])>> \o Walk(ta, tb, i, j + 1)
    ELSE IF i < Len(ta) THEN <<Deletion(ta[i + 1])>> \o Walk(ta, tb, i + 1, j)
    ELSE IF j < Len(tb) THEN <<Insertion(tb[j + 1])>> \o Walk(ta, tb, i, j + 1)
    ELSE <<>>

Abs(x) == IF x < 0 THEN -x ELSE x

\* line 132: cur.originalPosition ?? cur.position
OrigOrPos(c) ==
    IF c.originalPosition # Undefined THEN c.originalPosition ELSE c.position

\* the test that forgets to look at the type of next
AnyAfterDeletion(cur, next) ==
    /\ cur.type = "deletion"
    /\ Abs(OrigOrPos(cur) - next.position) <= 1

\* lines 130-132: cur is a deletion, next an insertion at most 1 character away
LooksLikeReplacement(cur, next) ==
    /\ cur.type = "deletion"
    /\ next.type = "insertion"
    /\ Abs(OrigOrPos(cur) - next.position) <= 1

Grouped(c, group) ==
    [c EXCEPT !.isGrouped = TRUE, !.isReplacement = TRUE,
              !.replacementGroup = group]

\* lines 124-142: the grouping pass from index k (0-based), next id replaceId
RECURSIVE GroupFrom(_, _, _)
GroupFrom(cs, k, replaceId) ==
    IF k >= Len(cs) THEN <<>>
    ELSE IF k + 1 < Len(cs) /\ LooksLikeReplacement(cs[k + 1], cs[k + 2])
         THEN <<Grouped(cs[k + 1], replaceId), Grouped(cs[k + 2], replaceId)>>
              \o GroupFrom(cs, k + 2, replaceId + 1)
         ELSE <<cs[k + 1]>> \o GroupFrom(cs, k + 1, replaceId)

\* the whole function, as the editor calls it
findTextDifferences(o, e) ==
    IF ShortCircuit(o, e) THEN <<>>
    ELSE GroupFrom(Walk(tokenize(o), tokenize(e), 0, 0), 0, 0)

----------------------------------------------------------------------------
(* One call of findTextDifferences, in the order of the source *)

\* value of a prop, field or callback argument that does not exist (yet)
Absent == <<"absent">>

\* no renderer has been called
NoCall == [fn |-> "none"]

RenderIdle ==
    /\ renderBase = <<>>
    /\ renderText = <<>>
    /\ renderChanges = <<>>
    /\ rendered = NoCall

\* the Analyze page is not open
CountIdle ==
    /\ query = <<>>
    /\ pageText = <<>>
    /\ parentEdited = Absent
    /\ occurrences = Undefined
    /\ countOp = "none"

\* no throttled function exists, or the throttle is left out of the step
ThrottleIdle ==
    /\ now = 0
    /\ lastRun = 0
    /\ timeout = Undefined
    /\ pendingArgs = Undefined
    /\ calls = 0
    /\ passed = <<>>

\* no component is mounted while the function is exercised on its own
EditorIdle ==
    /\ revision = "none"
    /\ initialContent = Absent
    /\ comparisonBase = Absent
    /\ originalContent = Absent
    /\ editedContent = Absent
    /\ debouncedEditedContent = Absent
    /\ debouncePending = FALSE
    /\ textChanges = <<>>
    /\ allChanges = <<>>
    /\ showHighlights = TRUE
    /\ editMode = FALSE
    /\ history = <<>>
    /\ historyIndex = 0
    /\ saves = 0
    /\ contentSaved = Absent
    /\ contentChanged = Absent
    /\ lastOp = "none"

InitDiff ==
    /\ \E p \in InputPairs : originalText = p[1] /\ editedText = p[2]
    /\ a = <<>>
    /\ b = <<>>
    /\ changes = <<>>
    /\ processed = <<>>
    /\ tokenized = FALSE
    /\ pc = "entry"
    /\ EditorIdle
    /\ RenderIdle
    /\ CountIdle
    /\ ThrottleIdle

\* line 58
ReturnEqual ==
    /\ pc = "entry"
    /\ ShortCircuit(originalText, editedText)
    /\ processed' = <<>>
    /\ pc' = "returned"
    /\ UNCHANGED <<originalText, editedText, a, b, changes, tokenized>>
    /\ UNCHANGED nonDiffVars

\* lines 60-61
Tokenize ==
    /\ pc = "entry"
    /\ ~ShortCircuit(originalText, editedText)
    /\ a' = tokenize(originalText)
    /\ b' = tokenize(editedText)
    /\ tokenized' = TRUE
    /\ pc' = "tokenized"
    /\ UNCHANGED <<originalText, editedText, changes, processed>>
    /\ UNCHANGED nonDiffVars

\* lines 66-121
Align ==
    /\ pc = "tokenized"
    /\ changes' = Walk(a, b, 0, 0)
    /\ pc' = "aligned"
    /\ UNCHANGED <<originalText, editedText, a, b, processed, tokenized>>
    /\ UNCHANGED nonDiffVars

\* lines 123-144
GroupReplacements ==
    /\ pc = "aligned"
    /\ processed' = GroupFrom(changes, 0, 0)
    /\ pc' = "returned"
    /\ UNCHANGED <<originalText, editedText, a, b, changes, tokenized>>
    /\ UNCHANGED nonDiffVars

NextDiff == ReturnEqual \/ Tokenize \/ Align \/ GroupReplacements

SpecDiff == InitDiff /\ [][NextDiff]_vars

----------------------------------------------------------------------------
(* The PageContent component: PageContent.tsx and its revision part_005 *)

Tsx == "PageContent.tsx"
P5 == "part_005"
Revisions == {Tsx, P5}

DocX == <<"x">>
DocY == <<"x", " ", "y">>
DocZ == <<"y">>

\* the texts a page is loaded with and the editor is set to
Docs == {DocX, DocY, DocZ}

\* the diff whose group ids go on from a counter that outlives the call
TextChangesCountingOn(base, orig, edited, show, mode) ==
    LET target == IF mode THEN edited ELSE orig
    IN  IF ~show \/ base = target THEN <<>>
        ELSE GroupFrom(Walk(tokenize(base), tokenize(target), 0, 0), 0,
                       historyIndex)

\* part_005 lines 69-78: what the diff effect stores in textChanges
TextChangesP5(base, orig, edited, show, mode) ==
    LET target == IF mode THEN edited ELSE orig
    IN  IF ~show \/ base = target THEN <<>>
        ELSE findTextDifferences(base, target)

\* the notification without the early return of the diff effect
NotifiedWheneverEdited(prev, base, orig, edited, show, mode) ==
    IF orig # edited THEN edited ELSE prev

\* part_005 lines 72-82: the last text onContentChanged has received
NotifiedP5(prev, base, orig, edited, show, mode) ==
    LET target == IF mode THEN edited ELSE orig
    IN  IF ~show \/ base = target THEN prev
        ELSE IF orig # edited THEN edited ELSE prev

\* PageContent.tsx lines 91-103
TextChangesTsx(orig, debounced) ==
    IF orig = debounced THEN <<>> ELSE findTextDifferences(orig, debounced)

\* PageContent.tsx lines 91-107
NotifiedTsx(prev, orig, debounced) ==
    IF orig = debounced THEN prev ELSE debounced

\* the history written by an edit without dropping the forward entries
AppendWithoutTruncating(h, idx, newContent) == Append(h, newContent)

\* [...history.slice(0, historyIndex + 1), newContent]
NewHistory(h, idx, newContent) == Append(SubSeq(h, 1, idx + 1), newContent)

canUndo == historyIndex > 0
canRedo == historyIndex < Len(history) - 1
hasChanges == originalContent # editedContent

DiffIdle ==
    /\ originalText = <<>>
    /\ editedText = <<>>
    /\ a = <<>>
    /\ b = <<>>
    /\ changes = <<>>
    /\ processed = <<>>
    /\ tokenized = FALSE
    /\ pc = "idle"

\* the component mounted on a page, after its first effects
Init ==
    /\ DiffIdle
    /\ RenderIdle
    /\ CountIdle
    /\ ThrottleIdle
    /\ revision \in Revisions
    /\ \E content \in Docs :
        /\ initialContent = content
        /\ comparisonBase = (IF revision = P5 THEN content ELSE Absent)
        /\ originalContent = content
        /\ editedContent = content
        /\ debouncedEditedContent = content
        /\ history = <<content>>
    /\ debouncePending = (revision = Tsx)
    /\ textChanges = <<>>
    /\ allChanges = <<>>
    /\ showHighlights = TRUE
    /\ editMode = FALSE
    /\ historyIndex = 0
    /\ saves = 0
    /\ contentSaved = Absent
    /\ contentChanged = Absent
    /\ lastOp = "mount"

\* the [pageData] effect and the diff effect that follows it
Load(content) ==
    /\ initialContent' = content
    /\ originalContent' = content
    /\ editedContent' = content
    /\ history' = <<content>>
    /\ historyIndex' = 0
    /\ showHighlights' = TRUE
    /\ saves' = 0
    /\ lastOp' = "load"
    /\ IF revision = P5
       THEN /\ comparisonBase' = content
            /\ allChanges' = <<>>
            /\ debouncedEditedContent' = content
            /\ textChanges' = <<>>
            /\ contentChanged' =
                   NotifiedP5(contentChanged, comparisonBase, originalContent,
                              editedContent, showHighlights, editMode)
            /\ UNCHANGED debouncePending
       ELSE /\ debouncePending' = (debouncePending \/ content # editedContent)
            /\ textChanges' = TextChangesTsx(content, debouncedEditedContent)
            /\ contentChanged' =
                   NotifiedTsx(NotifiedTsx(contentChanged, originalContent,
                                           debouncedEditedContent),
                               content, debouncedEditedContent)
            /\ UNCHANGED <<comparisonBase, allChanges, debouncedEditedContent>>
    /\ UNCHANGED <<revision, editMode, contentSaved>>
    /\ UNCHANGED nonEditorVars

\* onClick={() => setEditMode(true)}
EnterEditMode ==
    /\ ~editMode
    /\ editMode' = TRUE
    /\ lastOp' = "enterEditMode"
    /\ IF revision = P5
       THEN /\ textChanges' =
                   TextChangesP5(comparisonBase, originalContent, editedContent,
                                 showHighlights, TRUE)
            /\ contentChanged' =
                   NotifiedP5(contentChanged, comparisonBase, originalContent,
                              editedContent, showHighlights, TRUE)
       ELSE UNCHANGED <<textChanges, contentChanged>>
    /\ UNCHANGED <<revision, initialContent, comparisonBase, originalContent,
                   editedContent, debouncedEditedContent, debouncePending,
                   allChanges, showHighlights, history, historyIndex, saves,
                   contentSaved>>
    /\ UNCHANGED nonEditorVars

\* what every handler that sets editedContent in edit mode shares: the new
\* buffer, then the diff effect (part_005) or the debounce timer (PageContent.tsx)
SetEditedContent(newContent) ==
    /\ editedContent' = newContent
    /\ IF revision = P5
       THEN /\ debouncedEditedContent' = newContent
            /\ textChanges' =
                   TextChangesP5(comparisonBase, originalContent, newContent,
                                 showHighlights, editMode)
            /\ contentChanged' =
                   NotifiedP5(contentChanged, comparisonBase, originalContent,
                              newContent, showHighlights, editMode)
            /\ UNCHANGED debouncePending
       ELSE /\ debouncePending' = (debouncePending \/ newContent # editedContent)
            /\ UNCHANGED <<debouncedEditedContent, textChanges, contentChanged>>

\* handleContentChange, called with the textarea's value
Edit(newContent) ==
    /\ editMode
    /\ Len(history) < MaxHistory
    /\ lastOp' = "edit"
    /\ IF newContent # editedContent
       THEN /\ history' = NewHistory(history, historyIndex, newContent)
            /\ historyIndex' = Len(history') - 1
            /\ SetEditedContent(newContent)
       ELSE UNCHANGED <<history, historyIndex, editedContent,
                        debouncedEditedContent, debouncePending, textChanges,
                        contentChanged>>
    /\ UNCHANGED <<revision, initialContent, comparisonBase, originalContent,
                   allChanges, showHighlights, editMode, saves, contentSaved>>
    /\ UNCHANGED nonEditorVars

\* undo that moves the index and leaves the buffer on the entry it had
UndoKeepingBuffer ==
    /\ editMode
    /\ lastOp' = "undo"
    /\ IF historyIndex > 0
       THEN /\ historyIndex' = historyIndex - 1
            /\ SetEditedContent(history[historyIndex + 1])
       ELSE UNCHANGED <<historyIndex, editedContent, debouncedEditedContent,
                        debouncePending, textChanges, contentChanged>>
    /\ UNCHANGED <<revision, initialContent, comparisonBase, originalContent,
                   allChanges, showHighlights, editMode, history, saves,
                   contentSaved>>
    /\ UNCHANGED nonEditorVars

handleUndo ==
    /\ editMode
    /\ lastOp' = "undo"
    /\ IF historyIndex > 0
       THEN /\ historyIndex' = historyIndex - 1
            /\ SetEditedContent(history[historyIndex])
       ELSE UNCHANGED <<historyIndex, editedContent, debouncedEditedContent,
                        debouncePending, textChanges, contentChanged>>
    /\ UNCHANGED <<revision, initialContent, comparisonBase, originalContent,
                   allChanges, showHighlights, editMode, history, saves,
                   contentSaved>>
    /\ UNCHANGED nonEditorVars

handleRedo ==
    /\ editMode
    /\ lastOp' = "redo"
    /\ IF historyIndex < Len(history) - 1
       THEN /\ historyIndex' = historyIndex + 1
            /\ SetEditedContent(history[historyIndex + 2])
       ELSE UNCHANGED <<historyIndex, editedContent, debouncedEditedContent,
                        debouncePending, textChanges, contentChanged>>
    /\ UNCHANGED <<revision, initialContent, comparisonBase, originalContent,
                   allChanges, showHighlights, editMode, history, saves,
                   contentSaved>>
    /\ UNCHANGED nonEditorVars

\* PageContent.tsx lines 164-178
SaveTsx ==
    /\ contentSaved' = editedContent
    /\ editMode' = FALSE
    /\ showHighlights' = TRUE
    /\ history' = <<editedContent>>
    /\ historyIndex' = 0
    /\ UNCHANGED <<initialContent, comparisonBase, originalContent,
                   editedContent, debouncedEditedContent, debouncePending,
                   textChanges, allChanges, contentChanged>>

\* a save that also takes the saved text as the text loaded with the page
SaveRebasingInitialContent ==
    /\ contentSaved' = editedContent
    /\ allChanges' =
           allChanges \o findTextDifferences(originalContent, editedContent)
    /\ comparisonBase' = editedContent
    /\ originalContent' = editedContent
    /\ initialContent' = editedContent
    /\ editMode' = FALSE
    /\ showHighlights' = TRUE
    /\ textChanges' =
           TextChangesP5(editedContent, editedContent, editedContent, TRUE, FALSE)
    /\ contentChanged' =
           NotifiedP5(contentChanged, editedContent, editedContent,
                      editedContent, TRUE, FALSE)
    /\ UNCHANGED <<editedContent, debouncedEditedContent,
                   debouncePending, history, historyIndex>>

\* part_005 lines 116-126, then the diff effect
SaveP5 ==
    /\ contentSaved' = editedContent
    /\ allChanges' =
           allChanges \o findTextDifferences(originalContent, editedContent)
    /\ comparisonBase' = editedContent
    /\ originalContent' = editedContent
    /\ editMode' = FALSE
    /\ showHighlights' = TRUE
    /\ textChanges' =
           TextChangesP5(editedContent, editedContent, editedContent, TRUE, FALSE)
    /\ contentChanged' =
           NotifiedP5(contentChanged, editedContent, editedContent,
                      editedContent, TRUE, FALSE)
    /\ UNCHANGED <<initialContent, editedContent, debouncedEditedContent,
                   debouncePending, history, historyIndex>>

\* the Save button: rendered in edit mode, disabled without changes
handleSaveChanges ==
    /\ editMode
    /\ hasChanges
    /\ saves < MaxSaves
    /\ saves' = saves + 1
    /\ lastOp' = "save"
    /\ IF revision = P5 THEN SaveP5 ELSE SaveTsx
    /\ UNCHANGED revision
    /\ UNCHANGED nonEditorVars

\* a discard that restores the buffer without recording it in the history
DiscardWithoutHistoryEntry ==
    /\ historyIndex + 2 <= MaxHistory
    /\ editMode' = FALSE
    /\ SetEditedContent(originalContent)
    /\ UNCHANGED <<initialContent, comparisonBase, originalContent, allChanges,
                   saves, history, historyIndex>>

\* PageContent.tsx lines 224-231
DiscardTsx ==
    /\ historyIndex + 2 <= MaxHistory
    /\ history' = NewHistory(history, historyIndex, originalContent)
    /\ historyIndex' = historyIndex + 1
    /\ editMode' = FALSE
    /\ SetEditedContent(originalContent)
    /\ UNCHANGED <<initialContent, comparisonBase, originalContent, allChanges,
                   saves>>

\* part_005 lines 128-139, then the diff effect
DiscardP5 ==
    /\ editedContent' = initialContent
    /\ debouncedEditedContent' = initialContent
    /\ originalContent' = initialContent
    /\ comparisonBase' = initialContent
    /\ allChanges' = <<>>
    /\ history' = <<initialContent>>
    /\ historyIndex' = 0
    /\ editMode' = FALSE
    /\ saves' = 0
    /\ textChanges' =
           TextChangesP5(initialContent, initialContent, initialContent,
                         showHighlights, FALSE)
    /\ contentChanged' =
           NotifiedP5(contentChanged, initialContent, initialContent,
                      initialContent, showHighlights, FALSE)
    /\ UNCHANGED <<initialContent, debouncePending>>

\* the Cancel button: rendered in edit mode
handleDiscardChanges ==
    /\ editMode
    /\ lastOp' = "discard"
    /\ IF revision = P5 THEN DiscardP5 ELSE DiscardTsx
    /\ UNCHANGED <<revision, showHighlights, contentSaved>>
    /\ UNCHANGED nonEditorVars

\* the Hide/Show Changes button: rendered in view mode
toggleShowChanges ==
    /\ ~editMode
    /\ showHighlights' = ~showHighlights
    /\ lastOp' = "toggle"
    /\ IF revision = P5
       THEN /\ textChanges' =
                   TextChangesP5(comparisonBase, originalContent, editedContent,
                                 ~showHighlights, editMode)
            /\ contentChanged' =
                   NotifiedP5(contentChanged, comparisonBase, originalContent,
                              editedContent, ~showHighlights, editMode)
       ELSE UNCHANGED <<textChanges, contentChanged>>
    /\ UNCHANGED <<revision, initialContent, comparisonBase, originalContent,
                   editedContent, debouncedEditedContent, debouncePending,
                   allChanges, editMode, history, historyIndex, saves,
                   contentSaved>>
    /\ UNCHANGED nonEditorVars

\* PageContent.tsx lines 35-39: the timer of useDebounce fires, and the diff
\* effect runs on the new debounced value
DebounceFire ==
    /\ revision = Tsx
    /\ debouncePending
    /\ debouncePending' = FALSE
    /\ debouncedEditedContent' = editedContent
    /\ textChanges' = TextChangesTsx(originalContent, editedContent)
    /\ contentChanged' =
           IF editedContent # debouncedEditedContent
           THEN NotifiedTsx(contentChanged, originalContent, editedContent)
           ELSE contentChanged
    /\ UNCHANGED <<revision, initialContent, comparisonBase, originalContent,
                   editedContent, allChanges, showHighlights, editMode, history,
                   historyIndex, saves, contentSaved, lastOp>>
    /\ UNCHANGED nonEditorVars

Next ==
    \/ \E content \in Docs : Load(content)
    \/ EnterEditMode
    \/ \E newContent \in Docs : Edit(newContent)
    \/ handleUndo
    \/ handleRedo
    \/ handleSaveChanges
    \/ handleDiscardChanges
    \/ toggleShowChanges
    \/ DebounceFire

Spec == Init /\ [][Next]_vars

----------------------------------------------------------------------------
(* formatTextWithChanges, in the two versions diffUtils.ts holds *)

\* longest enumerated text handed to a renderer, in characters
MaxRenderLen == 3

\* a heading mark, a blank, a letter and a line break
RenderAlphabet == {"#", " ", "t", "\n"}

\* the characters escapeHtml rewrites, and a blank
MarkupAlphabet == {"&", "<", ">", " "}

RECURSIVE StringsOver(_, _)
StringsOver(alphabet, n) ==
    IF n = 0 THEN {<<>>}
    ELSE LET shorter == StringsOver(alphabet, n - 1)
         IN  shorter \cup {Append(s, c) : s \in shorter, c \in alphabet}

\* "# Title\nbody text" and "# New Title\nbody text"
TitleBody ==
    <<"#"," ","T","i","t","l","e","\n","b","o","d","y"," ","t","e","x","t">>
NewTitleBody ==
    <<"#"," ","N","e","w"," ","T","i","t","l","e","\n",
      "b","o","d","y"," ","t","e","x","t">>

\* (base, text) pairs: the text is rendered with its changes against base
RenderPairs ==
    LET docs == StringsOver(RenderAlphabet, MaxRenderLen)
        markup == StringsOver(MarkupAlphabet, MaxRenderLen)
    IN  (docs \X docs) \cup (markup \X markup) \cup {<<TitleBody, NewTitleBody>>}

\* Array.prototype.sort with a comparator on key: ascending and stable
RECURSIVE InsertByKey(_, _)
InsertByKey(sorted, p) ==
    IF sorted = <<>> THEN <<p>>
    ELSE IF Head(sorted).key <= p.key
         THEN <<Head(sorted)>> \o InsertByKey(Tail(sorted), p)
         ELSE <<p>> \o sorted

RECURSIVE SortByKey(_)
SortByKey(ps) ==
    IF ps = <<>> THEN <<>>
    ELSE InsertByKey(SortByKey(SubSeq(ps, 1, Len(ps) - 1)), ps[Len(ps)])

\* the nodes a renderer emits: a string, or a styled element around c.text
PlainNode(t) == [kind |-> "text", text |-> t]
StyledNode(c) == [kind |-> c.type, text |-> c.text]

\* lines 161-208: the loop over the sorted changes and the remaining text
RECURSIVE FormatFrom(_, _, _)
FormatFrom(text, sorted, lastPos) ==
    IF sorted = <<>>
    THEN IF lastPos < Len(text)
         THEN <<PlainNode(Substring(text, lastPos, Len(text)))>>
         ELSE <<>>
    ELSE LET c == Head(sorted).c
             pos == c.position
         IN  (IF pos > lastPos
              THEN <<PlainNode(Substring(text, lastPos, pos))>>
              ELSE <<>>)
             \o <<StyledNode(c)>>
             \o FormatFrom(text, Tail(sorted), pos + Len(c.text))

\* first version, lines 151-212
formatTextWithChanges(text, cs) ==
    IF cs = <<>> THEN <<PlainNode(text)>>
    ELSE FormatFrom(text,
                    SortByKey([k \in DOMAIN cs |->
                                  [key |-> cs[k].position, c |-> cs[k]]]),
                    0)

\* second version, lines 361-369 and 372-375: a deletion is placed at its
\* originalPosition
PlaceOf(c) ==
    IF c.type = "deletion" /\ c.originalPosition # Undefined
    THEN c.originalPosition
    ELSE c.position

\* second version, lines 371-405: only a deletion moves lastPos
RECURSIVE FormatFrom2(_, _, _)
FormatFrom2(text, sorted, lastPos) ==
    IF sorted = <<>>
    THEN IF lastPos < Len(text)
         THEN <<PlainNode(Substring(text, lastPos, Len(text)))>>
         ELSE <<>>
    ELSE LET c == Head(sorted).c
             pos == PlaceOf(c)
         IN  (IF pos > lastPos
              THEN <<PlainNode(Substring(text, lastPos, pos))>>
              ELSE <<>>)
             \o <<StyledNode(c)>>
             \o FormatFrom2(text, Tail(sorted),
                            IF c.type = "deletion" THEN pos + Len(c.text)
                            ELSE lastPos)

\* second version, lines 350-411
formatTextWithChanges2(text, cs) ==
    IF cs = <<>> THEN <<PlainNode(text)>>
    ELSE FormatFrom2(text,
                     SortByKey([k \in DOMAIN cs |->
                                   [key |-> PlaceOf(cs[k]), c |-> cs[k]]]),
                     0)

Versions == {1, 2}

Format(version, text, cs) ==
    IF version = 1 THEN formatTextWithChanges(text, cs)
    ELSE formatTextWithChanges2(text, cs)

----------------------------------------------------------------------------
(* renderContentWithChanges: by line in part_005, by block in PageContent.tsx *)

\* number of leading characters of s that are in set
RECURSIVE LeadingRun(_, _)
LeadingRun(s, set) ==
    IF s = <<>> \/ Head(s) \notin set THEN 0
    ELSE 1 + LeadingRun(Tail(s), set)

\* what (.*) matches at the start of s: everything before the first line break
UpToLineBreak(s) ==
    SubSeq(s, 1, LeadingRun(s, {s[k] : k \in DOMAIN s} \ {"\n"}))

\* block.match(/^(#+)\s+(.*)/)
parseHeading(block) ==
    LET hashes == LeadingRun(block, {"#"})
        blanks == LeadingRun(SubSeq(block, hashes + 1, Len(block)), Whitespace)
    IN  IF hashes >= 1 /\ blanks >= 1
        THEN [isHeading |-> TRUE, level |-> hashes,
              prefix |-> SubSeq(block, 1, hashes),
              text |-> UpToLineBreak(SubSeq(block, hashes + blanks + 1, Len(block))),
              fullText |-> block]
        ELSE [isHeading |-> FALSE, level |-> 0, prefix |-> <<>>, text |-> block,
              fullText |-> block]

\* content.split('\n')
RECURSIVE SplitLines(_)
SplitLines(s) ==
    LET first == UpToLineBreak(s)
    IN  IF Len(first) = Len(s) THEN <<s>>
        ELSE <<first>> \o SplitLines(SubSeq(s, Len(first) + 2, Len(s)))

\* highlightText(text, searchTerm) with no search term: the text itself
highlightText(text) == <<PlainNode(text)>>

\* part_005 lines 214-219: the changes of the line, at offsets from its start
RelevantChanges(cs, lineStart, lineLength) ==
    LET here(c) ==
            IF c.type = "insertion"
            THEN c.position >= lineStart /\ c.position < lineStart + lineLength
            ELSE /\ c.originalPosition # Undefined
                 /\ c.originalPosition >= lineStart
                 /\ c.originalPosition < lineStart + lineLength
        relevant == SelectSeq(cs, here)
    IN  [k \in DOMAIN relevant |->
            [relevant[k] EXCEPT !.position = PlaceOf(relevant[k]) - lineStart]]

\* part_005 lines 229-232: positions moved left by the prefix and one blank
HeadingTextChanges(adjusted, prefix) ==
    LET prefixLength == Len(prefix) + 1
    IN  [k \in DOMAIN adjusted |->
            [adjusted[k] EXCEPT !.position =
                IF adjusted[k].position - prefixLength < 0 THEN 0
                ELSE adjusted[k].position - prefixLength]]

\* part_005 lines 208-248: the element one line is rendered to
RenderLineP5(line, lineStart, cs, show, version) ==
    LET headingInfo == parseHeading(line)
        adjustedChanges == RelevantChanges(cs, lineStart, Len(line))
        headingTextChanges == HeadingTextChanges(adjustedChanges, headingInfo.prefix)
    IN  IF headingInfo.isHeading
        THEN [tag |-> "h", level |-> headingInfo.level, start |-> lineStart,
              source |-> line, text |-> headingInfo.text,
              nodes |-> IF show /\ headingTextChanges # <<>>
                        THEN Format(version, headingInfo.text, headingTextChanges)
                        ELSE highlightText(headingInfo.text)]
        ELSE [tag |-> "p", level |-> 0, start |-> lineStart,
              source |-> line, text |-> line,
              nodes |-> IF show /\ adjustedChanges # <<>>
                        THEN Format(version, line, adjustedChanges)
                        ELSE highlightText(line)]

RECURSIVE RenderLinesP5(_, _, _, _, _)
RenderLinesP5(lines, currentPosition, cs, show, version) ==
    IF lines = <<>> THEN <<>>
    ELSE <<RenderLineP5(Head(lines), currentPosition, cs, show, version)>>
         \o RenderLinesP5(Tail(lines), currentPosition + Len(Head(lines)) + 1,
                          cs, show, version)

\* part_005 lines 205-251
renderContentWithChangesP5(content, cs, show, version) ==
    RenderLinesP5(SplitLines(content), 0, cs, show, version)

\* block.trim() is the empty string
IsBlank(s) == \A k \in DOMAIN s : s[k] \in Whitespace

\* PageContent.tsx lines 350-372: the non-blank blocks between runs of two or
\* more line breaks, each with its start offset; scan is the 0-based offset
\* the search for the next run has reached
RECURSIVE BlocksFrom(_, _, _)
BlocksFrom(content, lastIndex, scan) ==
    LET kept(block) ==
            IF IsBlank(block) THEN <<>>
            ELSE <<[text |-> block, start |-> lastIndex]>>
    IN  IF scan >= Len(content)
        THEN IF lastIndex < Len(content)
             THEN kept(Substring(content, lastIndex, Len(content)))
             ELSE <<>>
        ELSE LET run == LeadingRun(SubSeq(content, scan + 1, Len(content)), {"\n"})
             IN  IF run >= 2
                 THEN kept(Substring(content, lastIndex, scan))
                      \o BlocksFrom(content, scan + run, scan + run)
                 ELSE BlocksFrom(content, lastIndex, scan + 1)

\* PageContent.tsx lines 380-393: the changes of the block, at offsets from
\* its start
RelevantChangesTsx(cs, blockStart, blockLength) ==
    LET here(c) == PlaceOf(c) >= blockStart /\ PlaceOf(c) < blockStart + blockLength
        relevant == SelectSeq(cs, here)
    IN  [k \in DOMAIN relevant |->
            [relevant[k] EXCEPT !.position = PlaceOf(relevant[k]) - blockStart]]

\* PageContent.tsx lines 374-440: the element one block is rendered to
RenderBlockTsx(block, blockStart, cs, show, version) ==
    LET headingInfo == parseHeading(block)
        relevantChanges == RelevantChangesTsx(cs, blockStart, Len(block))
    IN  IF headingInfo.isHeading
        THEN [tag |-> "h", level |-> headingInfo.level, start |-> blockStart,
              source |-> block, text |-> headingInfo.text,
              nodes |-> IF show /\ relevantChanges # <<>>
                        THEN Format(version, headingInfo.text, relevantChanges)
                        ELSE highlightText(headingInfo.text)]
        ELSE [tag |-> "p", level |-> 0, start |-> blockStart,
              source |-> block, text |-> block,
              nodes |-> IF show /\ relevantChanges # <<>>
                        THEN Format(version, block, relevantChanges)
                        ELSE highlightText(block)]

\* PageContent.tsx lines 349-442
renderContentWithChangesTsx(content, cs, show, version) ==
    LET blocks == BlocksFrom(content, 0, 0)
    IN  [k \in DOMAIN blocks |->
            RenderBlockTsx(blocks[k].text, blocks[k].start, cs, show, version)]

renderContentWithChanges(rev, content, cs, show, version) ==
    IF rev = P5 THEN renderContentWithChangesP5(content, cs, show, version)
    ELSE renderContentWithChangesTsx(content, cs, show, version)

----------------------------------------------------------------------------
(* convertToHighlightedHTML, in the two versions diffUtils.ts holds. An HTML
   string is a sequence whose elements are the characters taken from the
   text, the entities written for them, and the tags the function writes. *)

DeletionOpen == "<span deletion>"
InsertionOpen == "<span insertion>"
SpanClose == "</span>"
LineBreakTag == "<br>"
ParagraphOpen == "<p>"
ParagraphClose == "</p>"

\* the text as it is, with no character replaced
NotEscaped(s) == s

\* lines 250-252
escapeHtml(s) ==
    [k \in DOMAIN s |->
        IF s[k] = "&" THEN "&amp;"
        ELSE IF s[k] = "<" THEN "&lt;"
        ELSE IF s[k] = ">" THEN "&gt;"
        ELSE s[k]]

\* html.replace(/\n/g, "<br>")
LineBreaksToTags(html) ==
    [k \in DOMAIN html |-> IF html[k] = "\n" THEN LineBreakTag ELSE html[k]]

\* lines 227-244: the loop over the sorted changes and the remaining text
RECURSIVE HtmlFrom(_, _, _)
HtmlFrom(content, sorted, lastPos) ==
    IF sorted = <<>>
    THEN IF lastPos < Len(content)
         THEN escapeHtml(Substring(content, lastPos, Len(content)))
         ELSE <<>>
    ELSE LET c == Head(sorted).c
             pos == c.position
         IN  (IF pos > lastPos
              THEN escapeHtml(Substring(content, lastPos, pos))
              ELSE <<>>)
             \o <<IF c.type = "deletion" THEN DeletionOpen ELSE InsertionOpen>>
             \o escapeHtml(c.text)
             \o <<SpanClose>>
             \o HtmlFrom(content, Tail(sorted), pos + Len(c.text))

\* first version, lines 217-248
convertToHighlightedHTML(content, cs) ==
    IF cs = <<>> THEN LineBreaksToTags(NotEscaped(content))
    ELSE LineBreaksToTags(
             HtmlFrom(content,
                      SortByKey([k \in DOMAIN cs |->
                                    [key |-> cs[k].position, c |-> cs[k]]]),
                      0))

\* what a call returns when it throws instead
ReferenceError == <<"ReferenceError">>

\* second version, lines 466-560: the function reads `sorted` (line 540),
\* which no scope of it declares, whatever its arguments are
formatTextToHTML(text, cs) == ReferenceError

\* second version, lines 433-449: the changes of a line, the end of the line
\* included, at offsets from its start
LineChanges(cs, lineStartPos, lineLength) ==
    LET here(c) ==
            IF c.type = "insertion"
            THEN c.position >= lineStartPos /\ c.position <= lineStartPos + lineLength
            ELSE /\ c.originalPosition # Undefined
                 /\ c.originalPosition >= lineStartPos
                 /\ c.originalPosition <= lineStartPos + lineLength
        lineChanges == SelectSeq(cs, here)
    IN  [k \in DOMAIN lineChanges |->
            [lineChanges[k] EXCEPT !.position = PlaceOf(lineChanges[k]) - lineStartPos]]

\* second version, lines 427-456: the loop over the lines
RECURSIVE HtmlOfLines(_, _, _)
HtmlOfLines(lines, lineStartPos, cs) ==
    IF lines = <<>> THEN <<>>
    ELSE LET line == Head(lines)
             adjustedChanges == LineChanges(cs, lineStartPos, Len(line))
             rest == HtmlOfLines(Tail(lines), lineStartPos + Len(line) + 1, cs)
             inner == IF adjustedChanges # <<>>
                      THEN formatTextToHTML(line, adjustedChanges)
                      ELSE NotEscaped(line)
         IN  IF inner = ReferenceError \/ rest = ReferenceError
             THEN ReferenceError
             ELSE <<ParagraphOpen>> \o inner \o <<ParagraphClose, "\n">> \o rest

\* second version, lines 415-460
convertToHighlightedHTML2(content, cs) ==
    HtmlOfLines(SplitLines(content), 0, cs)

----------------------------------------------------------------------------
(* The renderers called on a text and the changes that led to it *)

InitRender ==
    /\ DiffIdle
    /\ EditorIdle
    /\ CountIdle
    /\ ThrottleIdle
    /\ \E p \in RenderPairs :
        /\ renderBase = p[1]
        /\ renderText = p[2]
        /\ renderChanges = findTextDifferences(p[1], p[2])
    /\ rendered = NoCall

FormatText(version) ==
    /\ rendered = NoCall
    /\ rendered' = [fn |-> "formatTextWithChanges", revision |-> "none",
                    version |-> version, show |-> TRUE,
                    out |-> Format(version, renderText, renderChanges)]
    /\ UNCHANGED <<renderBase, renderText, renderChanges>>
    /\ UNCHANGED nonRenderVars

RenderContent(rev, show, version) ==
    /\ rendered = NoCall
    /\ rendered' = [fn |-> "renderContentWithChanges", revision |-> rev,
                    version |-> version, show |-> show,
                    out |-> renderContentWithChanges(rev, renderText,
                                                     renderChanges, show, version)]
    /\ UNCHANGED <<renderBase, renderText, renderChanges>>
    /\ UNCHANGED nonRenderVars

ConvertToHtml(version) ==
    /\ rendered = NoCall
    /\ rendered' = [fn |-> "convertToHighlightedHTML", revision |-> "none",
                    version |-> version, show |-> TRUE,
                    out |-> IF version = 1
                            THEN convertToHighlightedHTML(renderText, renderChanges)
                            ELSE convertToHighlightedHTML2(renderText, renderChanges)]
    /\ UNCHANGED <<renderBase, renderText, renderChanges>>
    /\ UNCHANGED nonRenderVars

NextRender ==
    \/ \E version \in Versions : FormatText(version)
    \/ \E rev \in Revisions, show \in BOOLEAN, version \in Versions :
           RenderContent(rev, show, version)
    \/ \E version \in Versions : ConvertToHtml(version)

SpecRender == InitRender /\ [][NextRender]_vars

----------------------------------------------------------------------------
(* The occurrence count of a query on the Analyze page (Analyze.tsx) *)

\* longest enumerated page text, in characters
MaxCountLen == 3

\* longest enumerated text a callback delivers, in characters
MaxEditedLen == 2

\* longest enumerated query, in characters
MaxQueryLen == 2

\* a letter in both cases and a regex metacharacter
CountAlphabet == {"a", "A", "."}

CountTexts == StringsOver(CountAlphabet, MaxCountLen)
EditedTexts == StringsOver(CountAlphabet, MaxEditedLen)
Queries == StringsOver(CountAlphabet, MaxQueryLen) \ {<<>>}

\* line 355: the class [.*+?^${}()|[\]\\]
RegexMeta ==
    {".", "*", "+", "?", "^", "$", "{", "}", "(", ")", "|", "[", "]", "\\"}

\* line 355: query.query.replace(/[.*+?^${}()|[\]\\]/g, '\\$&')
RECURSIVE EscapeRegex(_)
EscapeRegex(q) ==
    IF q = <<>> THEN <<>>
    ELSE (IF Head(q) \in RegexMeta THEN <<"\\", Head(q)>> ELSE <<Head(q)>>)
         \o EscapeRegex(Tail(q))

\* line 356: new RegExp(source, ...), for sources made of characters,
\* escaped characters and dots: the atoms the pattern matches one after
\* the other
RECURSIVE Compile(_)
Compile(source) ==
    IF source = <<>> THEN <<>>
    ELSE IF Head(source) = "\\" /\ Len(source) >= 2
         THEN <<[any |-> FALSE, ch |-> source[2]]>>
              \o Compile(SubSeq(source, 3, Len(source)))
         ELSE <<[any |-> Head(source) = ".", ch |-> Head(source)]>>
              \o Compile(Tail(source))

\* the i flag: characters are compared by their upper-case form
UpperCase(c) == IF c = "a" THEN "A" ELSE c

AtomMatches(atom, c) ==
    IF atom.any THEN c # "\n" ELSE UpperCase(atom.ch) = UpperCase(c)

\* the pattern matches content from 0-based offset i on
MatchesAt(content, i, pattern) ==
    /\ i + Len(pattern) <= Len(content)
    /\ \A k \in DOMAIN pattern : AtomMatches(pattern[k], content[i + k])

\* line 357: content.match(regex) with the g flag, for a pattern that is
\* not empty: the matches found from lastIndex i on, each search starting
\* where the match before ended
RECURSIVE MatchCount(_, _, _)
MatchCount(content, pattern, i) ==
    IF i + Len(pattern) > Len(content) THEN 0
    ELSE IF MatchesAt(content, i, pattern)
         THEN 1 + MatchCount(content, pattern, i + Len(pattern))
         ELSE MatchCount(content, pattern, i + 1)

\* lines 355-361: occurrences of one query in contentToAnalyze
Occurrences(q, contentToAnalyze) ==
    MatchCount(contentToAnalyze, Compile(EscapeRegex(q)), 0)

\* line 352: editedContent || pageContent.content (null and "" are falsy)
ContentToAnalyze(edited, page) ==
    IF edited = Absent \/ edited = <<>> THEN page ELSE edited

\* the page open on a scraped text, no callback received, no count yet
InitCount ==
    /\ DiffIdle
    /\ EditorIdle
    /\ RenderIdle
    /\ ThrottleIdle
    /\ query \in Queries
    /\ pageText \in CountTexts
    /\ parentEdited = Absent
    /\ occurrences = Undefined
    /\ countOp = "open"

\* lines 300-374: queryFn runs (first fetch, or a key of queryKey changed)
\* and reads the editedContent of the render that created it
FetchQueries ==
    /\ occurrences' = Occurrences(query, ContentToAnalyze(parentEdited, pageText))
    /\ countOp' = "fetch"
    /\ UNCHANGED <<query, pageText, parentEdited>>
    /\ UNCHANGED nonCountVars

\* lines 430-433
handleContentChanged(content) ==
    /\ parentEdited' = content
    /\ countOp' = "changed"
    /\ UNCHANGED <<query, pageText, occurrences>>
    /\ UNCHANGED nonCountVars

\* lines 435-440: refetchQueries() runs the queryFn of the current render,
\* whose editedContent is the one from before setEditedContent(content)
handleContentSaved(content) ==
    /\ parentEdited' = content
    /\ occurrences' = Occurrences(query, ContentToAnalyze(parentEdited, pageText))
    /\ countOp' = "saved"
    /\ UNCHANGED <<query, pageText>>
    /\ UNCHANGED nonCountVars

NextCount ==
    \/ FetchQueries
    \/ \E content \in EditedTexts : handleContentChanged(content)
    \/ \E content \in EditedTexts : handleContentSaved(content)

SpecCount == InitCount /\ [][NextCount]_vars

----------------------------------------------------------------------------
(* useThrottleCallback (src/src/hooks/useThrottleCallback.ts), as the      *)
(* editor uses it on handleContentChange. Time is counted in milliseconds  *)
(* from the moment the hook is first usable: Date.now() is already more    *)
(* than limit past the initial lastRunRef of 0.                            *)

\* useThrottleCallback(handleContentChange, 5)
Limit == 5

\* the clock stops here
MaxTime == 16

\* most calls of the throttled function in one behaviour
MaxCalls == 3

InitThrottle ==
    /\ DiffIdle
    /\ EditorIdle
    /\ RenderIdle
    /\ CountIdle
    /\ now = Limit
    /\ lastRun = 0
    /\ timeout = Undefined
    /\ pendingArgs = Undefined
    /\ calls = 0
    /\ passed = <<>>

\* a millisecond passes; an armed timer may be due and not have run yet
Tick ==
    /\ now < MaxTime
    /\ now' = now + 1
    /\ UNCHANGED <<lastRun, timeout, pendingArgs, calls, passed>>
    /\ UNCHANGED nonThrottleVars

\* lines 34-64: the k-th call, with k as its arguments; the calls stop early
\* enough for a timer they arm to come due before the clock stops
throttledCallback ==
    /\ calls < MaxCalls
    /\ now + Limit <= MaxTime
    /\ LET args == calls + 1
           timeSinceLastRun == now - lastRun
       IN  /\ calls' = args
           /\ pendingArgs' = args
           /\ IF timeSinceLastRun >= Limit
              THEN /\ lastRun' = now
                   /\ passed' = Append(passed, args)
                   /\ UNCHANGED timeout
              ELSE /\ timeout' = now + (Limit - timeSinceLastRun)
                   /\ UNCHANGED <<lastRun, passed>>
    /\ UNCHANGED now
    /\ UNCHANGED nonThrottleVars

\* lines 54-62: the function handed to setTimeout runs, at its time or later
TimeoutRuns ==
    /\ timeout # Undefined
    /\ now >= timeout
    /\ lastRun' = now
    /\ timeout' = Undefined
    /\ IF pendingArgs # Undefined
       THEN /\ passed' = Append(passed, pendingArgs)
            /\ pendingArgs' = Undefined
       ELSE UNCHANGED <<passed, pendingArgs>>
    /\ UNCHANGED <<now, calls>>
    /\ UNCHANGED nonThrottleVars

NextThrottle == Tick \/ throttledCallback \/ TimeoutRuns

\* time passes, and a timer that is due runs in the end
SpecThrottle ==
    /\ InitThrottle
    /\ [][NextThrottle]_vars
    /\ WF_vars(Tick)
    /\ WF_vars(TimeoutRuns)

----------------------------------------------------------------------------
(* Reading a change list back: the operations the round-trip contract names *)

Deletions(cs) == SelectSeq(cs, LAMBDA c : c.type = "deletion")
Insertions(cs) == SelectSeq(cs, LAMBDA c : c.type = "insertion")

ByPosition(c1, c2) == c1.position < c2.position

\* 0-based offsets of s covered by some change of cs
Covered(cs) ==
    {q \in Int : FALSE} \cup
    UNION {c.position .. (c.position + Len(c.text) - 1) : c \in {cs[k] : k \in DOMAIN cs}}

\* s without the characters the changes of cs cover
RECURSIVE KeepFrom(_, _, _)
KeepFrom(s, i, cov) ==
    IF i > Len(s) THEN <<>>
    ELSE (IF (i - 1) \in cov THEN <<>> ELSE <<s[i]>>) \o KeepFrom(s, i + 1, cov)

RemoveTexts(s, cs) == KeepFrom(s, 1, Covered(cs))

\* s with c.text spliced in at offset c.position
SpliceOne(s, c) ==
    Substring(s, 0, c.position) \o c.text \o Substring(s, c.position, Len(s))

RECURSIVE SpliceFrom(_, _)
SpliceFrom(s, cs) ==
    IF cs = <<>> THEN s ELSE SpliceFrom(SpliceOne(s, Head(cs)), Tail(cs))

\* every change of cs spliced into s, in ascending position order
SpliceTexts(s, cs) == SpliceFrom(s, SortSeq(cs, ByPosition))

Texts(toks) == [k \in DOMAIN toks |-> toks[k].text]

RECURSIVE SumLen(_)
SumLen(toks) == IF toks = <<>> THEN 0 ELSE Len(Head(toks).text) + SumLen(Tail(toks))

RECURSIVE IsSubseq(_, _)
IsSubseq(u, t) ==
    IF u = <<>> THEN TRUE
    ELSE IF t = <<>> THEN FALSE
    ELSE IF Head(u) = Head(t) THEN IsSubseq(Tail(u), Tail(t))
    ELSE IsSubseq(u, Tail(t))

RECURSIVE Subseqs(_)
Subseqs(s) ==
    IF s = <<>> THEN {<<>>}
    ELSE LET rest == Subseqs(Tail(s))
         IN  rest \cup {<<Head(s)>> \o x : x \in rest}

\* length of a longest common subsequence, by enumeration
LongestCommon(s, t) ==
    LET common == Subseqs(s) \cap Subseqs(t)
    IN  CHOOSE n \in 0..Len(s) :
            /\ \E u \in common : Len(u) = n
            /\ \A u \in common : Len(u) <= n

Returned == pc = "returned"

----------------------------------------------------------------------------
(* Claims about findTextDifferences and tokenize, under SpecDiff *)

\* C1: the returned list rebuilds editedText from originalText (deletions
\* removed at their offsets in the old text, insertions spliced in at their
\* offsets in the new text) and originalText from editedText (insertions
\* removed, deletions re-added at originalPosition).
C1_RoundTrip ==
    Returned =>
        /\ SpliceTexts(RemoveTexts(originalText, Deletions(processed)),
                       Insertions(processed)) = editedText
        /\ SpliceTexts(RemoveTexts(editedText, Insertions(processed)),
                       Deletions(processed)) = originalText

C1_Witness ==
    /\ Returned
    /\ Deletions(processed) # <<>>
    /\ Insertions(processed) # <<>>
    /\ Len(processed) >= 3

\* C2 as stated: splicing the insertions alone into originalText, in
\* ascending position order, gives editedText.
C2_InsertionsAloneRebuild ==
    Returned => SpliceTexts(originalText, Insertions(processed)) = editedText

\* C2 amended: splicing the insertions into originalText gives editedText
\* when the list holds no deletion, and in every case when the deletions'
\* texts are first removed from originalText.
C2_InsertionsAfterDeletions ==
    Returned =>
        /\ Deletions(processed) = <<>> =>
               SpliceTexts(originalText, Insertions(processed)) = editedText
        /\ LET stripped == RemoveTexts(originalText, Deletions(processed))
           IN  /\ Len(stripped) + SumLen(Insertions(processed)) = Len(editedText)
               /\ SpliceFrom(stripped, Insertions(processed)) = editedText

C2_Witness ==
    /\ Returned
    /\ Deletions(processed) = <<>>
    /\ Len(Insertions(processed)) >= 2
    /\ originalText # <<>>

\* C3: identical texts, the empty text included, return the empty list and
\* tokenize is never called.
C3_Identity ==
    (Returned /\ originalText = editedText) =>
        /\ processed = <<>>
        /\ ~tokenized
        /\ findTextDifferences(originalText, editedText) = <<>>

C3_Witness ==
    /\ Returned
    /\ originalText = editedText
    /\ Len(originalText) = MaxLen

\* C4: tokenize partitions its argument: the token texts concatenate to the
\* string, no token is empty, each index is the total length of the tokens
\* before it, and the empty string gives the empty list.
Partitions(toks, text) ==
    /\ Concat(Texts(toks)) = text
    /\ \A k \in DOMAIN toks :
           /\ toks[k].text # <<>>
           /\ toks[k].index = SumLen(SubSeq(toks, 1, k - 1))
    /\ text = <<>> => toks = <<>>

C4_TokenizePartitions ==
    tokenized => Partitions(a, originalText) /\ Partitions(b, editedText)

C4_Witness ==
    /\ tokenized
    /\ Len(a) >= 3
    /\ editedText = <<>>
    /\ b = <<>>

\* C5: for different texts with n and m tokens the list holds exactly n - L
\* deletions and m - L insertions, L the length of a longest common
\* subsequence of the two token-text sequences.
C5_OptimalAlignment ==
    (Returned /\ originalText # editedText) =>
        LET L == LongestCommon(Texts(a), Texts(b))
        IN  /\ Len(Deletions(processed)) = Len(a) - L
            /\ Len(Insertions(processed)) = Len(b) - L

C5_Witness ==
    /\ Returned
    /\ LongestCommon(Texts(a), Texts(b)) >= 1
    /\ Deletions(processed) # <<>>
    /\ Insertions(processed) # <<>>
    /\ dp(a, b, 1, 0) # dp(a, b, 0, 1)

\* C6: a replacementGroup id is carried by exactly two records, a deletion
\* immediately followed by an insertion at most one character away, both
\* with isReplacement set; every such adjacent pair is grouped; and "the cat
\* sat" -> "the dog sat" gives one deletion "cat" and one insertion "dog" in
\* one group.
GroupIds(cs) ==
    {cs[k].replacementGroup : k \in DOMAIN cs} \ {Undefined}

C6_ReplacementGroups ==
    Returned =>
        /\ \A g \in GroupIds(processed) :
               \E k \in 1..(Len(processed) - 1) :
                   /\ {i \in DOMAIN processed : processed[i].replacementGroup = g}
                          = {k, k + 1}
                   /\ processed[k].type = "deletion"
                   /\ processed[k + 1].type = "insertion"
                   /\ Abs(processed[k].originalPosition - processed[k + 1].position) <= 1
                   /\ processed[k].isReplacement
                   /\ processed[k + 1].isReplacement
        /\ \A k \in 1..(Len(processed) - 1) :
               ( /\ processed[k].type = "deletion"
                 /\ processed[k + 1].type = "insertion"
                 /\ Abs(processed[k].originalPosition - processed[k + 1].position) <= 1 )
               => /\ processed[k].replacementGroup # Undefined
                  /\ processed[k].replacementGroup = processed[k + 1].replacementGroup
        /\ (originalText = TheCatSat /\ editedText = TheDogSat) =>
               /\ Len(processed) = 2
               /\ processed[1].type = "deletion"
               /\ processed[1].text = <<"c", "a", "t">>
               /\ processed[2].type = "insertion"
               /\ processed[2].text = <<"d", "o", "g">>
               /\ processed[1].replacementGroup = processed[2].replacementGroup
               /\ processed[1].replacementGroup # Undefined

C6_Witness ==
    /\ Returned
    /\ Cardinality(GroupIds(processed)) = 2
    /\ \E k \in DOMAIN processed : processed[k].replacementGroup = Undefined

\* C7: when the token texts of originalText are a subsequence of those of
\* editedText the list holds no deletion, its insertions are tokens of
\* editedText at their offsets there, and the tokens left over are those of
\* originalText; "hello world" -> "hello brave world" inserts "brave " from
\* offset 6.
C7_PureInsertion ==
    (Returned /\ tokenized /\ IsSubseq(Texts(a), Texts(b))) =>
        LET ins == Insertions(processed)
            inserted == {[text |-> ins[k].text, index |-> ins[k].position] :
                            k \in DOMAIN ins}
        IN  /\ Deletions(processed) = <<>>
            /\ Len(ins) = Len(b) - Len(a)
            /\ Cardinality(inserted) = Len(ins)
            /\ inserted \subseteq {b[k] : k \in DOMAIN b}
            /\ Texts(SelectSeq(b, LAMBDA t : t \notin inserted)) = Texts(a)
            /\ (originalText = HelloWorld /\ editedText = HelloBraveWorld) =>
                   /\ Concat(Texts(ins)) = <<"b", "r", "a", "v", "e", " ">>
                   /\ ins[1].position = 6

C7_Witness ==
    /\ Returned
    /\ originalText = HelloWorld
    /\ editedText = HelloBraveWorld
    /\ Len(processed) = 2

\* type, text and offset of each record, in list order
Essence(cs) == [k \in DOMAIN cs |-> <<cs[k].type, cs[k].text, cs[k].position>>]

\* no token text of s is a token text of t
NoCommonToken(s, t) ==
    {tok.text : tok \in {tokenize(s)[k] : k \in DOMAIN tokenize(s)}}
        \cap {tok.text : tok \in {tokenize(t)[k] : k \in DOMAIN tokenize(t)}} = {}

\* C20: when no token text of originalText occurs in editedText the list is
\* every token of originalText as a deletion, in order, then every token of
\* editedText as an insertion, in order; an empty originalText gives one
\* insertion per token of editedText and no deletion, an empty editedText
\* one deletion per token of originalText and no insertion.
C20_DisjointTextsDeleteThenInsert ==
    (Returned /\ NoCommonToken(originalText, editedText)) =>
        LET ta == tokenize(originalText)
            tb == tokenize(editedText)
        IN  /\ Essence(processed) =
                   [k \in DOMAIN ta |-> <<"deletion", ta[k].text, ta[k].index>>]
                   \o [k \in DOMAIN tb |-> <<"insertion", tb[k].text, tb[k].index>>]
            /\ originalText = <<>> =>
                   /\ Deletions(processed) = <<>>
                   /\ Len(processed) = Len(tb)
            /\ editedText = <<>> =>
                   /\ Insertions(processed) = <<>>
                   /\ Len(processed) = Len(ta)

C20_Witness ==
    /\ Returned
    /\ NoCommonToken(originalText, editedText)
    /\ Len(a) >= 2
    /\ Len(b) >= 2
    /\ Len(processed) = Len(a) + Len(b)

----------------------------------------------------------------------------
(* Claims about the editor, under Spec *)

\* C8 as stated: right after any edit historyIndex is the last index of
\* history (so that redo has nothing to redo).
C8_AnyEditEndsAtLastIndex ==
    lastOp = "edit" => historyIndex = Len(history) - 1

\* C8 amended: an edit with a text other than the one in the buffer drops
\* every entry after historyIndex before appending, so right after it
\* historyIndex is the last index and redo changes nothing; undo and redo
\* never change the history list and only move one entry at a time inside
\* it, so a dropped entry is not reached again; undo shows the entry before,
\* redo the entry after. (An edit with the text already in the buffer
\* changes nothing.)
C8_EditTruncatesForwardHistory ==
    [][ /\ (lastOp' = "edit" /\ editedContent' # editedContent) =>
              /\ history' = Append(SubSeq(history, 1, historyIndex + 1),
                                   editedContent')
              /\ historyIndex' = Len(history') - 1
              /\ ~canRedo'
        /\ (lastOp' = "edit" /\ editedContent' = editedContent) =>
              UNCHANGED <<history, historyIndex>>
        /\ lastOp' = "undo" =>
              /\ history' = history
              /\ \/ UNCHANGED <<historyIndex, editedContent>>
                 \/ /\ canUndo
                    /\ historyIndex' = historyIndex - 1
                    /\ editedContent' = history[historyIndex]
        /\ lastOp' = "redo" =>
              /\ history' = history
              /\ \/ UNCHANGED <<historyIndex, editedContent>>
                 \/ /\ canRedo
                    /\ historyIndex' = historyIndex + 1
                    /\ editedContent' = history[historyIndex + 2]
      ]_vars

\* X, edit(Y), edit(Z), undo, undo, redo: the buffer shows Y again
C8_Witness ==
    /\ lastOp = "redo"
    /\ history = <<DocX, DocY, DocZ>>
    /\ historyIndex = 1
    /\ editedContent = DocY
    /\ originalContent = DocX

\* C9: after a save originalContent is the text that was saved, editMode is
\* off and showHighlights is on.
C9_SaveCommitsBuffer ==
    lastOp = "save" =>
        /\ originalContent = contentSaved
        /\ originalContent = editedContent
        /\ ~editMode
        /\ showHighlights

\* C10: after a save history is the one-entry list [editedContent] and
\* historyIndex is 0.
C10_SaveResetsHistory ==
    lastOp = "save" =>
        /\ history = <<editedContent>>
        /\ historyIndex = 0

\* C11: right after a discard the buffer, originalContent and comparisonBase
\* all hold the text the page was loaded with, textChanges is empty, history
\* is the one-entry list of that text with historyIndex 0, and editMode is
\* off, whatever edits, undos, redos and saves came before.
C11_DiscardRestoresLoadedState ==
    lastOp = "discard" =>
        /\ editedContent = initialContent
        /\ originalContent = initialContent
        /\ comparisonBase = initialContent
        /\ textChanges = <<>>
        /\ history = <<initialContent>>
        /\ historyIndex = 0
        /\ ~editMode

\* C12: once the diff effect has run on the current state, textChanges is
\* empty when showHighlights is off or the comparison base equals the target
\* (the buffer in edit mode, originalContent in view mode), and is
\* findTextDifferences(base, target) otherwise. The base of PageContent.tsx,
\* which keeps no comparisonBase, is originalContent.
C12_TextChangesRecomputed ==
    (revision = P5 \/ ~debouncePending) =>
        LET base == IF revision = P5 THEN comparisonBase ELSE originalContent
            target == IF editMode THEN editedContent ELSE originalContent
        IN  textChanges = IF ~showHighlights \/ base = target
                          THEN <<>>
                          ELSE findTextDifferences(base, target)

C18_LoadResetsAndStaysQuiet ==
    [][ /\ lastOp' = "load" =>
              /\ initialContent' = editedContent'
              /\ originalContent' = editedContent'
              /\ comparisonBase' = editedContent'
              /\ history' = <<editedContent'>>
              /\ historyIndex' = 0
              /\ textChanges' = <<>>
        /\ (lastOp' = "load" /\ lastOp # "load") =>
              contentChanged' = contentChanged
        /\ (lastOp = "load" /\ debouncePending /\ ~debouncePending') =>
              contentChanged' = contentChanged
      ]_vars

\* part_005 lines 350-357 and PageContent.tsx lines 596-602: the content
\* handed to the renderer in view mode
DisplayedText ==
    IF revision = P5
    THEN IF showHighlights THEN originalContent ELSE initialContent
    ELSE IF showHighlights THEN editedContent ELSE originalContent

\* C19: in view mode the text displayed is originalContent, with
\* showHighlights on and off, before and after a save.
C19_ViewShowsOriginalContent ==
    ~editMode => DisplayedText = originalContent

----------------------------------------------------------------------------
(* Claims about the renderers, under SpecRender *)

\* the text a reader sees in the nodes, deletion spans left out
ShownText(nodes) ==
    Concat(Texts(SelectSeq(nodes, LAMBDA n : n.kind # "deletion")))

InsertionSpans(nodes) == Texts(SelectSeq(nodes, LAMBDA n : n.kind = "insertion"))

\* 0-based offset of the heading text inside its line or block
HeadingTextStart(source) ==
    LET hashes == LeadingRun(source, {"#"})
    IN  hashes + LeadingRun(SubSeq(source, hashes + 1, Len(source)), Whitespace)

\* the insertions of cs that lie in the heading text of unit u, in order
InsertionsInHeading(u, cs) ==
    LET from == u.start + HeadingTextStart(u.source)
        inside(c) == /\ c.type = "insertion"
                     /\ c.position >= from
                     /\ c.position < from + Len(u.text)
    IN  Texts(SelectSeq(cs, inside))

\* C14: a heading rendered with highlights holds only the heading content:
\* its plain runs and insertion spans concatenate to the heading text
\* without the prefix, its insertion spans are the insertions that lie in
\* that text (none holds a character of the "#" prefix), and "# Title\nbody
\* text" edited to "# New Title\nbody text" renders the heading "New Title"
\* with the insertion "New" inside it.
C14_HeadingHoldsOnlyItsText ==
    (rendered.fn = "renderContentWithChanges" /\ rendered.show) =>
        /\ \A k \in DOMAIN rendered.out :
               LET u == rendered.out[k]
               IN  u.tag = "h" =>
                       /\ ShownText(u.nodes) = u.text
                       /\ InsertionSpans(u.nodes) = InsertionsInHeading(u, renderChanges)
        /\ (renderBase = TitleBody /\ renderText = NewTitleBody) =>
               /\ rendered.out[1].tag = "h"
               /\ ShownText(rendered.out[1].nodes) =
                      <<"N","e","w"," ","T","i","t","l","e">>
               /\ <<"N","e","w">> \in
                      {InsertionSpans(rendered.out[1].nodes)[i] :
                          i \in DOMAIN InsertionSpans(rendered.out[1].nodes)}

\* C15: the nodes formatTextWithChanges(B, findTextDifferences(A, B)) emits,
\* deletion spans left out, concatenate to exactly B.
C15_ShownTextIsTheText ==
    rendered.fn = "formatTextWithChanges" =>
        ShownText(rendered.out) = renderText

\* the elements of an HTML string that escapeHtml never lets through
RawMarkup == {"&", "<", ">"}

\* C16: convertToHighlightedHTML writes "&", "<" and ">" of the content
\* and of the change texts as entities, for every content and every change
\* list, the empty list included: none of the three characters reaches the
\* HTML it returns.
C16_ExportEscapesMarkup ==
    rendered.fn = "convertToHighlightedHTML" =>
        \A k \in DOMAIN rendered.out : rendered.out[k] \notin RawMarkup

----------------------------------------------------------------------------
(* Claims about the occurrence count, under SpecCount *)

\* the non-overlapping occurrences of q in text from 0-based offset i on,
\* letters compared without their case, found from left to right
RECURSIVE LiteralOccurrences(_, _, _)
LiteralOccurrences(q, text, i) ==
    IF i + Len(q) > Len(text) THEN 0
    ELSE IF \A k \in DOMAIN q : UpperCase(q[k]) = UpperCase(text[i + k])
         THEN 1 + LiteralOccurrences(q, text, i + Len(q))
         ELSE LiteralOccurrences(q, text, i + 1)

\* C17: whenever queryFn has run, the count of a non-empty query is the
\* number of non-overlapping, case-insensitive occurrences of the query
\* taken as a literal string, found from left to right, in the saved or
\* edited text when the page has received one and in the loaded page text
\* otherwise.
C17_CountOnCurrentText ==
    countOp \in {"fetch", "saved"} =>
        occurrences =
            LiteralOccurrences(query,
                               IF parentEdited # Absent THEN parentEdited
                               ELSE pageText,
                               0)

----------------------------------------------------------------------------
(* Further claims about the editor, under Spec *)

\* the step is the useDebounce timer firing, not a handler
TimerFires == debouncePending /\ ~debouncePending'

\* what no handler other than a load, a save or a discard may touch
SavedTexts == <<originalContent, comparisonBase, initialContent>>

\* C21: undo at historyIndex 0 and redo at the last index change nothing;
\* otherwise they move historyIndex by one and copy the entry it then points
\* at into the buffer; in every case originalContent, comparisonBase,
\* initialContent and the history list stay as they are.
C21_UndoRedoFrame ==
    [][ /\ (lastOp' = "undo" /\ ~TimerFires) =>
              /\ UNCHANGED <<SavedTexts, history>>
              /\ IF historyIndex = 0
                 THEN UNCHANGED <<historyIndex, editedContent, textChanges,
                                  showHighlights, editMode, allChanges>>
                 ELSE /\ historyIndex' = historyIndex - 1
                      /\ editedContent' = history'[historyIndex' + 1]
        /\ (lastOp' = "redo" /\ ~TimerFires) =>
              /\ UNCHANGED <<SavedTexts, history>>
              /\ IF historyIndex = Len(history) - 1
                 THEN UNCHANGED <<historyIndex, editedContent, textChanges,
                                  showHighlights, editMode, allChanges>>
                 ELSE /\ historyIndex' = historyIndex + 1
                      /\ editedContent' = history'[historyIndex' + 1]
      ]_vars

\* X, edit(Y), edit(Z), undo, undo: the buffer is back on X, and a third
\* undo would change nothing
C21_Witness ==
    /\ lastOp = "undo"
    /\ history = <<DocX, DocY, DocZ>>
    /\ historyIndex = 0
    /\ editedContent = DocX
    /\ originalContent = DocX

\* C22 as stated: a toggle leaves the buffer, originalContent,
\* comparisonBase, history and historyIndex as they are; turning highlights
\* off makes textChanges empty; turning them on makes textChanges
\* findTextDifferences(comparisonBase, target) again, target being the
\* buffer in edit mode and originalContent in view mode.
C22_ToggleFlipsHighlightsOnly ==
    [][ (lastOp' = "toggle" /\ ~TimerFires) =>
            /\ showHighlights' = ~showHighlights
            /\ UNCHANGED <<editedContent, SavedTexts, history, historyIndex>>
            /\ ~showHighlights' => textChanges' = <<>>
            /\ showHighlights' =>
                   LET base == IF revision = P5 THEN comparisonBase
                               ELSE originalContent
                       target == IF editMode THEN editedContent
                                 ELSE originalContent
                   IN  textChanges' = IF base = target THEN <<>>
                                      ELSE findTextDifferences(base, target)
      ]_vars

\* C23: initialContent is the content of the most recent load: a load
\* makes it the loaded content (the only entry of the history the load
\* writes), and no other step (an edit, an undo, a redo, a save, a discard,
\* entering edit mode, a toggle, the debounce timer) changes it.
C23_InitialContentIsTheLoadedPage ==
    [][ IF lastOp' = "load"
        THEN /\ Len(history') = 1
             /\ initialContent' = history'[1]
        ELSE UNCHANGED initialContent
      ]_vars

\* a page was edited and saved as another text, and the text loaded is
\* still the one remembered
C23_Witness ==
    /\ lastOp = "save"
    /\ initialContent = DocY
    /\ contentSaved = DocZ
    /\ editedContent # initialContent

\* what the diff effect of the revision reads
DiffInputs ==
    IF revision = P5
    THEN <<comparisonBase, IF editMode THEN editedContent ELSE originalContent,
           showHighlights>>
    ELSE <<originalContent, debouncedEditedContent>>

C29_SavedInsertionsPointAtShownText ==
    (revision = P5 /\ ~editMode /\ showHighlights) =>
        \A k \in DOMAIN allChanges :
            allChanges[k].type = "insertion" =>
                Substring(originalContent, allChanges[k].position,
                          allChanges[k].position + Len(allChanges[k].text))
                    = allChanges[k].text

----------------------------------------------------------------------------
(* Further claims about findTextDifferences, under SpecDiff *)

AllOfOneKind(tok) ==
    \/ \A k \in DOMAIN tok.text : IsSpace(tok.text[k])
    \/ \A k \in DOMAIN tok.text : ~IsSpace(tok.text[k])

\* adjacent tokens are of different kinds: no token could have been longer
Alternates(toks) ==
    \A k \in 1..(Len(toks) - 1) :
        IsSpace(toks[k].text[1]) # IsSpace(toks[k + 1].text[1])

\* C25: every token is all whitespace or all non-whitespace, and tokens are
\* maximal: adjacent tokens alternate between the two kinds.
C25_TokensAreMaximalRuns ==
    tokenized =>
        /\ \A k \in DOMAIN a : AllOfOneKind(a[k])
        /\ \A k \in DOMAIN b : AllOfOneKind(b[k])
        /\ Alternates(a)
        /\ Alternates(b)

\* 'xy y' against '  x': runs longer than one character of both kinds
C25_Witness ==
    /\ tokenized
    /\ originalText = <<"x", "y", " ", "y">>
    /\ editedText = <<" ", " ", "x">>
    /\ Len(a) = 3
    /\ Len(b) = 2

\* the record's text is what the text holds from offset at
PointsAt(c, text, at) == Substring(text, at, at + Len(c.text)) = c.text

\* each record ends before the next one starts
InOrderWithoutOverlap(cs) ==
    \A k \in 1..(Len(cs) - 1) :
        /\ cs[k].position < cs[k + 1].position
        /\ cs[k].position + Len(cs[k].text) <= cs[k + 1].position

\* C27: every record points at its own text: a deletion's text is the
\* substring of the old text at originalPosition, which equals position,
\* and an insertion's text is the substring of the new text at position;
\* the deletions appear at strictly increasing positions, and so do the
\* insertions; no two records of the same type overlap.
C27_RecordsPointAtTheirText ==
    Returned =>
        /\ \A k \in DOMAIN processed :
               LET c == processed[k]
               IN  IF c.type = "deletion"
                   THEN /\ c.originalPosition = c.position
                        /\ PointsAt(c, originalText, c.originalPosition)
                   ELSE PointsAt(c, editedText, c.position)
        /\ InOrderWithoutOverlap(Deletions(processed))
        /\ InOrderWithoutOverlap(Insertions(processed))

\* 'x y' against 'y x': two deletions and two insertions
C27_Witness ==
    /\ Returned
    /\ Len(Deletions(processed)) >= 2
    /\ Len(Insertions(processed)) >= 2
    /\ Deletions(processed)[1].position > 0

----------------------------------------------------------------------------
(* Further claims about the editor, under Spec (continued) *)

\* C26: in every reachable state the history is not empty, historyIndex is
\* an index of it, and the buffer is the entry historyIndex points at.
C26_BufferIsCurrentHistoryEntry ==
    /\ history # <<>>
    /\ 0 <= historyIndex
    /\ historyIndex < Len(history)
    /\ editedContent = history[historyIndex + 1]

\* PageContent.tsx after two edits, an undo and a discard: the discard has
\* cut the forward entry and appended the saved text
C26_Witness ==
    /\ revision = Tsx
    /\ lastOp = "discard"
    /\ history = <<DocX, DocY, DocX>>
    /\ historyIndex = 2
    /\ editedContent = DocX

----------------------------------------------------------------------------
(* Further claims about the renderers, under SpecRender *)

\* the start offset of each line: currentPosition += line.length + 1
RECURSIVE LineStarts(_, _)
LineStarts(lines, currentPosition) ==
    IF lines = <<>> THEN <<>>
    ELSE <<currentPosition>>
         \o LineStarts(Tail(lines), currentPosition + Len(Head(lines)) + 1)

\* the lines of the rendered text for which part_005 keeps the change c
LinesShowing(c) ==
    LET lines == SplitLines(renderText)
        starts == LineStarts(lines, 0)
    IN  {l \in DOMAIN lines :
            RelevantChanges(<<c>>, starts[l], Len(lines[l])) # <<>>}

\* the lines of the exported text for which the export keeps the change c
LinesExporting(c) ==
    LET lines == SplitLines(renderText)
        starts == LineStarts(lines, 0)
    IN  {l \in DOMAIN lines :
            LineChanges(<<c>>, starts[l], Len(lines[l])) # <<>>}

\* C28: the per-line renderers attribute every insertion of
\* findTextDifferences(base, content) to exactly one line of the content:
\* none is dropped and none is shown in two lines, the insertions of
\* whitespace tokens that contain or sit on a line break included.
C28_EveryInsertionOnOneLine ==
    \A k \in DOMAIN renderChanges :
        LET c == renderChanges[k]
        IN  c.type = "insertion" =>
              /\ ( /\ rendered.fn = "renderContentWithChanges"
                   /\ rendered.revision = P5
                   /\ rendered.show ) =>
                     Cardinality(LinesShowing(c)) = 1
              /\ ( /\ rendered.fn = "convertToHighlightedHTML"
                   /\ rendered.version = 2 ) =>
                     Cardinality(LinesExporting(c)) = 1

----------------------------------------------------------------------------
(* Claims about useThrottleCallback, under SpecThrottle *)

\* the arguments of a call have reached the wrapped callback
Passed(k) == \E i \in DOMAIN passed : passed[i] = k

\* C30: under any interleaving of calls and timer firings the arguments of
\* the most recent call are eventually passed to the wrapped callback (the
\* last keystroke is never dropped), and the arguments of one call are
\* passed at most once.
C30_LastCallPassedEachAtMostOnce ==
    /\ \A k \in 1..MaxCalls : (calls = k) ~> (calls # k \/ Passed(k))
    /\ [](\A i, j \in DOMAIN passed : passed[i] = passed[j] => i = j)

====
